---------------------------- MODULE Spec2Model ----------------------------
(***************************************************************************)
(* autostore: the ORM rows of src/autostore/models.py (GeometryRow,        *)
(* CalculationRow, CalculationHashRow, EnergyRow), their two event hooks   *)
(* (populate_geometry_hash, populate_calculation_hashes) and the sessions  *)
(* that flush, commit and roll back against one SQLite database.           *)
(*                                                                         *)
(* A digest is modelled by the canonical form it is taken of (a tuple), so *)
(* two digests are equal exactly when the hashed fields are equal.         *)
(***************************************************************************)
EXTENDS Integers, Sequences, FiniteSets, TLC

VARIABLES
    registry,   \* hash_registry: variant name -> hash function
    db,         \* the four tables as the open transaction sees them
    committed,  \* the four tables as of the last commit
    txn,        \* the sessions with an open write transaction: none or one
    pending,    \* per session: CalculationHashRow objects added to it, not yet flushed
    result      \* outcome of the last operation: the error raised ("ok": none)
                \* and, for a uniqueness error, what collided

vars == <<registry, db, committed, txn, pending, result>>

(* ------------------------------ bounds --------------------------------- *)

NumSessions == 2
MaxCoord == 2
MaxId == 2
MaxBatch == 2

Sessions == 1..NumSessions

(* ----------------------- geometries, calculations ---------------------- *)

Water == <<"O", "H", "H">>

\* automol.Geometry values handed to the rows: coordinates is the index of
\* one of MaxCoord coordinate arrays (in Angstrom).
Geometries ==
    [symbols : {Water}, coordinates : 1..MaxCoord, charge : {0}, spin : {0}]

\* geom.geometry_hash: a digest of symbols, coordinates, charge and spin.
GeometryHash(geo) ==
    <<"geometry", geo.symbols, geo.coordinates, geo.charge, geo.spin>>

NoHash == <<>>
CallerHash == <<"caller">>

\* Calculation descriptors: the identity fields the hash variants read.
\* basis and program_version "None" stand for Python's None.
Calculations ==
    { [program |-> "crest", method |-> "gfn2", basis |-> "None",
       program_version |-> "3.0.2"],
      [program |-> "psi4", method |-> "b3lyp", basis |-> "sto-3g",
       program_version |-> "None"] }

Energies == {-5, -7}

(* --------------------------- hash registry ----------------------------- *)

VariantNames == {"minimal", "v2"}
HashFunctions == {"minimal_fn", "strict_fn"}

\* hash_registry.available()
Available(reg) == DOMAIN reg

\* The hash functions: "minimal_fn" digests program, method and basis;
\* "strict_fn" digests the program version too and rejects a descriptor
\* without one.
HashFunctionFails(fn, calc) ==
    fn = "strict_fn" /\ calc.program_version = "None"

HashFunctionValue(fn, calc) ==
    IF fn = "minimal_fn"
    THEN <<calc.program, calc.method, calc.basis>>
    ELSE <<calc.program, calc.method, calc.basis, calc.program_version>>

\* calculation_hash(calc, name=name)
CalculationHashFails(reg, calc, name) == HashFunctionFails(reg[name], calc)
CalculationHash(reg, calc, name) == HashFunctionValue(reg[name], calc)

\* The value on a hash row the caller attached before the flush.
CallerValue(name) == <<"caller", name>>

(* ------------------------------ tables --------------------------------- *)

EmptyDb ==
    [geometry |-> {}, calculation |-> {}, calculation_hash |-> {}, energy |-> {}]

Max(S) == CHOOSE x \in S : \A y \in S : y <= x

\* id INTEGER PRIMARY KEY on SQLite: one more than the largest id stored.
\* (The id of a CalculationHashRow is left out of its rows: nothing refers
\* to it, and the rows of the table differ in value. A row of calculation
\* carries, beside its columns, `available`: the registered names its
\* after_flush hook read, kept as history.)
NextId(rows) == IF rows = {} THEN 1 ELSE Max({r.id : r \in rows}) + 1

Ids(rows) == {r.id : r \in rows}

RECURSIVE SetToSeq(_)
SetToSeq(S) ==
    IF S = {} THEN <<>>
    ELSE LET x == CHOOSE y \in S : TRUE IN <<x>> \o SetToSeq(S \ {x})

RECURSIVE Concat(_)
Concat(seqs) == IF seqs = <<>> THEN <<>> ELSE Head(seqs) \o Concat(Tail(seqs))

(* ----------------------- constraints of the tables --------------------- *)

\* A hash column without unique=True.
GeometryHashUnchecked(rows, hash) == TRUE

\* GeometryRow.hash: Column(String(64), index=True, nullable=True, unique=True)
\* (NULLs are not compared.)
GeometryHashUnique(rows, hash) == hash = NoHash \/ \A r \in rows : r.hash # hash

\* CalculationHashRow.value: Column(String(64), ..., unique=True). The rows
\* that stop a new row (name, value) from being stored.
CalculationHashConflicts(rows, name, value) == {r \in rows : r.value = value}

\* An energy table whose key is not checked.
EnergyKeyUnchecked(rows, geometry_id, calculation_id) == TRUE

\* EnergyRow: geometry_id and calculation_id are the composite primary key.
EnergyKeyFree(rows, geometry_id, calculation_id) ==
    \A r \in rows :
        ~(r.geometry_id = geometry_id /\ r.calculation_id = calculation_id)

(* ------------------------------ the hooks ------------------------------ *)

\* populate_geometry_hash, listening for GeometryRow "before_insert".
PopulateGeometryHash(target) ==
    [target EXCEPT !.hash =
        GeometryHash([symbols |-> target.symbols,
                      coordinates |-> target.coordinates,
                      charge |-> target.charge, spin |-> target.spin])]

\* A hook that also listens for "before_update", as its docstring says.
InsertAndUpdateEvents == {"before_insert", "before_update"}

\* The mapper events that run populate_geometry_hash on a row.
GeometryHashEvents == {"before_insert"}

\* A hook that computes the difference the wrong way round.
MissingReversed(available, existing) == existing \ available

\* A hook that does not look at the rows already attached.
MissingIgnoringExisting(available, existing) == available

\* missing = available - existing
Missing(available, existing) == available \ existing

\* The hash rows the hook adds for one new CalculationRow: one row for each
\* missing name.
MissingHashRows(reg, row) ==
    LET existing == row.hashes
        missing == Missing(Available(reg), existing)
    IN  [i \in 1..Len(SetToSeq(missing)) |->
            [calculation_id |-> row.id,
             name |-> SetToSeq(missing)[i],
             value |-> CalculationHash(reg, row.calc, SetToSeq(missing)[i])]]

\* calculation_hash raises for some missing name of some new row.
PopulationFails(reg, new) ==
    \E i \in 1..Len(new) :
        \E name \in Missing(Available(reg), new[i].hashes) :
            CalculationHashFails(reg, new[i].calc, name)

\* A hook that adds no row.
PopulateNothing(reg, new) == <<>>

\* populate_calculation_hashes, listening for Session "after_flush": the
\* rows it adds to the session for the CalculationRow objects of session.new.
PopulateCalculationHashes(reg, new) ==
    Concat([i \in 1..Len(new) |-> MissingHashRows(reg, new[i])])

(* ------------------------------- a flush ------------------------------- *)

\* Below, CHOOSE r \in {F(x) : x \in {e}} : TRUE is F(e) with e evaluated
\* once.

EmptyBatch ==
    [geometries |-> <<>>, calculations |-> <<>>, energies |-> <<>>,
     results |-> <<>>]

\* The new GeometryRow objects of a batch, those related to its results last.
NewGeometryRows(batch) ==
    batch.geometries \o
    [i \in 1..Len(batch.results) |-> batch.results[i].geometry]

\* The new CalculationRow objects of a batch (the CalculationRow objects of
\* session.new), each with the id its INSERT gives it and with `available`,
\* the names the after_flush hook of this flush reads from the registry.
NewCalculationRows(reg, d, batch) ==
    LET objs == batch.calculations \o
                [i \in 1..Len(batch.results) |-> batch.results[i].calculation]
    IN  [i \in 1..Len(objs) |->
            [id |-> NextId(d.calculation) + i - 1, calc |-> objs[i].calc,
             hashes |-> objs[i].hashes, available |-> Available(reg)]]

\* The CalculationHashRow objects the caller attached to a new row.
AttachedHashRows(row) ==
    LET names == SetToSeq(row.hashes)
    IN  [i \in 1..Len(names) |->
            [calculation_id |-> row.id, name |-> names[i],
             value |-> CallerValue(names[i])]]

\* The new EnergyRow objects of a batch, each result's with the ids of its
\* GeometryRow and CalculationRow.
NewEnergyRows(d, batch) ==
    batch.energies \o
    [i \in 1..Len(batch.results) |->
        [geometry_id |-> NextId(d.geometry) + Len(batch.geometries) + i - 1,
         calculation_id |->
            NextId(d.calculation) + Len(batch.calculations) + i - 1,
         value |-> batch.results[i].value]]

\* The INSERTs of one flush, in mapper order: geometry and calculation
\* before the tables that reference them.
Statements(reg, d, pend, batch) ==
    LET geometries == NewGeometryRows(batch)
        calculations == NewCalculationRows(reg, d, batch)
        hashes == pend \o
            Concat([i \in 1..Len(calculations) |->
                        AttachedHashRows(calculations[i])])
        energies == NewEnergyRows(d, batch)
    IN  [i \in 1..Len(geometries) |->
            [table |-> "geometry", obj |-> geometries[i]]]
        \o [i \in 1..Len(calculations) |->
            [table |-> "calculation", obj |-> calculations[i]]]
        \o [i \in 1..Len(hashes) |->
            [table |-> "calculation_hash", obj |-> hashes[i]]]
        \o [i \in 1..Len(energies) |->
            [table |-> "energy", obj |-> energies[i]]]

InsertGeometryRow(st, obj) ==
    LET target == IF "before_insert" \in GeometryHashEvents
                  THEN PopulateGeometryHash(obj) ELSE obj
    IN  IF ~GeometryHashUnique(st.db.geometry, target.hash)
        THEN [st EXCEPT !.err = "geometry.hash", !.detail = <<target.hash>>]
        ELSE [st EXCEPT !.db.geometry = @ \cup
                {[id |-> NextId(@), symbols |-> target.symbols,
                  coordinates |-> target.coordinates,
                  charge |-> target.charge, spin |-> target.spin,
                  hash |-> target.hash]}]

InsertCalculationRow(st, obj) ==
    [st EXCEPT !.db.calculation = @ \cup
        {[id |-> NextId(@), program |-> obj.calc.program,
          method |-> obj.calc.method, basis |-> obj.calc.basis,
          program_version |-> obj.calc.program_version,
          available |-> obj.available]}]

InsertCalculationHashRow(st, obj) ==
    LET hits == CalculationHashConflicts(
                    st.db.calculation_hash, obj.name, obj.value)
    IN  IF hits # {}
        THEN [st EXCEPT !.err = "calculation_hash.value",
                        !.detail = <<obj.name, (CHOOSE r \in hits : TRUE).name>>]
        ELSE [st EXCEPT !.db.calculation_hash = @ \cup
                {[calculation_id |-> obj.calculation_id,
                  name |-> obj.name, value |-> obj.value]}]

InsertEnergyRow(st, obj) ==
    IF ~EnergyKeyFree(st.db.energy, obj.geometry_id, obj.calculation_id)
    THEN [st EXCEPT !.err = "energy.pkey"]
    ELSE [st EXCEPT !.db.energy = @ \cup
            {[geometry_id |-> obj.geometry_id,
              calculation_id |-> obj.calculation_id, value |-> obj.value]}]

InsertRow(st, stmt) ==
    CASE stmt.table = "geometry" -> InsertGeometryRow(st, stmt.obj)
      [] stmt.table = "calculation" -> InsertCalculationRow(st, stmt.obj)
      [] stmt.table = "calculation_hash" -> InsertCalculationHashRow(st, stmt.obj)
      [] stmt.table = "energy" -> InsertEnergyRow(st, stmt.obj)

\* The statements from the i-th on, until one raises.
RECURSIVE Execute(_, _, _)
Execute(st, stmts, i) ==
    IF i > Len(stmts) \/ st.err # "ok" THEN st
    ELSE CHOOSE r \in {Execute(next, stmts, i + 1) :
                        next \in {InsertRow(st, stmts[i])}} : TRUE

\* A hook that goes through every CalculationRow of the table, the
\* persistent ones too.
SessionAll(reg, d, batch) ==
    NewCalculationRows(reg, d, batch) \o
    [i \in 1..Len(SetToSeq(d.calculation)) |->
        [id |-> SetToSeq(d.calculation)[i].id,
         calc |-> SetToSeq(d.calculation)[i],
         hashes |-> {h.name : h \in {r \in d.calculation_hash :
                        r.calculation_id = SetToSeq(d.calculation)[i].id}},
         available |-> Available(reg)]]

\* The CalculationRow objects of the session the hook goes through: those
\* of session.new.
SessionNew(reg, d, batch) == NewCalculationRows(reg, d, batch)

\* A hook that swallows the exception of calculation_hash and goes on with
\* the next name.
FlushOutcomeSwallowing(reg, d, st, new) ==
    IF st.err # "ok"
    THEN [db |-> d, err |-> st.err, detail |-> st.detail, pending |-> <<>>]
    ELSE [db |-> st.db, err |-> "ok", detail |-> <<>>,
          pending |-> SelectSeq(PopulateCalculationHashes(reg, new),
                LAMBDA h : \A i \in 1..Len(new) :
                    new[i].id = h.calculation_id =>
                        ~CalculationHashFails(reg, new[i].calc, h.name))]

\* After the INSERTs the after_flush hook runs; an exception anywhere
\* leaves the flush without effect and the session without its new objects.
FlushOutcome(reg, d, st, new) ==
    IF st.err # "ok"
    THEN [db |-> d, err |-> st.err, detail |-> st.detail, pending |-> <<>>]
    ELSE IF PopulationFails(reg, new)
    THEN [db |-> d, err |-> "calculation_hash", detail |-> <<>>,
          pending |-> <<>>]
    ELSE [db |-> st.db, err |-> "ok", detail |-> <<>>,
          pending |-> PopulateCalculationHashes(reg, new)]

\* session.flush() with `batch` added to a session holding `pend`.
Flushed(reg, d, pend, batch) ==
    CHOOSE r \in
        {FlushOutcome(reg, d, Execute(st, stmts, 1), SessionNew(reg, d, batch)) :
            st \in {[db |-> d, err |-> "ok", detail |-> <<>>]},
            stmts \in {Statements(reg, d, pend, batch)}} : TRUE

\* Session.commit(): flush until the session is clean (at most 100 times).
RECURSIVE FlushedUntilClean(_, _, _, _, _)
FlushedUntilClean(reg, d, pend, batch, fuel) ==
    CHOOSE r \in
        {IF f.err # "ok" \/ f.pending = <<>> \/ fuel = 0 THEN f
         ELSE FlushedUntilClean(reg, f.db, f.pending, EmptyBatch, fuel - 1) :
            f \in {Flushed(reg, d, pend, batch)}} : TRUE

(* --------------------------- results, lookup --------------------------- *)

\* Coordinates of a qcio structure are in Bohr, here in units of 1e-4 Bohr.
BohrPerAngstrom == 18897

\* qcio Results with a ProgramInput: the structure, the model, the
\* provenance and the energy.
Results ==
    [symbols : {Water}, geometry : {BohrPerAngstrom * c : c \in 1..MaxCoord},
     charge : {0}, multiplicity : {1},
     program : {"crest"}, method : {"gfn2", "gfn1"}, basis : {"None"},
     program_version : {"3.0.2", "None"}, energy : Energies]

\* qc.structure.geometry: Bohr to Angstrom, multiplicity to unpaired electrons.
QcStructureGeometry(res) ==
    [symbols |-> res.symbols, coordinates |-> res.geometry \div BohrPerAngstrom,
     charge |-> res.charge, spin |-> res.multiplicity - 1]

\* GeometryRow.from_results
GeometryRowFromResults(res) ==
    LET geo == QcStructureGeometry(res)
    IN  [symbols |-> geo.symbols, coordinates |-> geo.coordinates,
         charge |-> geo.charge, spin |-> geo.spin, hash |-> NoHash]

\* CalculationRow.from_results
CalculationRowFromResults(res) ==
    [calc |-> [program |-> res.program, method |-> res.method,
               basis |-> res.basis, program_version |-> res.program_version],
     hashes |-> {}]

\* read.energy(geo, calc, hash_name): the energies of the rows found through
\* the geometry digest and the calculation's hash row of that name ({} is
\* None).
ReadEnergy(reg, d, geo, calc, hash_name) ==
    LET geometry_ids == {g.id : g \in {r \in d.geometry : r.hash = GeometryHash(geo)}}
        calculation_ids ==
            {h.calculation_id : h \in
                {r \in d.calculation_hash :
                    r.name = hash_name /\ r.value = CalculationHash(reg, calc, hash_name)}}
    IN  {e.value : e \in
            {r \in d.energy : r.geometry_id \in geometry_ids
                              /\ r.calculation_id \in calculation_ids}}

(* ------------------------------ operations ----------------------------- *)

Ok == [err |-> "ok", detail |-> <<>>]

Init ==
    /\ registry = [n \in {"minimal"} |-> "minimal_fn"]
    /\ db = EmptyDb
    /\ committed = EmptyDb
    /\ txn = {}
    /\ pending = [s \in Sessions |-> <<>>]
    /\ result = Ok

\* SQLite has one writer: a session writes when no other session's
\* transaction is open.
CanWrite(s) == txn \subseteq {s}

\* The outcome of a flush by session s: the flushed tables inside its
\* transaction, or the rollback of the transaction and of the session.
AfterFlush(s, f) ==
    /\ result' = [err |-> f.err, detail |-> f.detail]
    /\ pending' = [pending EXCEPT ![s] = f.pending]
    /\ IF f.err = "ok"
       THEN db' = f.db /\ txn' = {s}
       ELSE db' = committed /\ txn' = {}
    /\ UNCHANGED <<registry, committed>>

\* hash_registry.register(name, function), for a name not yet registered.
Register(name, fn) ==
    /\ name \notin DOMAIN registry
    /\ registry' = [n \in DOMAIN registry \cup {name} |->
                        IF n = name THEN fn ELSE registry[n]]
    /\ result' = Ok
    /\ UNCHANGED <<db, committed, txn, pending>>

\* session.add(GeometryRow(..., hash=hash)); session.flush()
InsertGeometry(s, geo, hash) ==
    /\ CanWrite(s)
    /\ NextId(db.geometry) <= MaxId
    /\ \E f \in {Flushed(registry, db, pending[s],
            [EmptyBatch EXCEPT !.geometries =
                <<[symbols |-> geo.symbols, coordinates |-> geo.coordinates,
                   charge |-> geo.charge, spin |-> geo.spin, hash |-> hash]>>])} :
        AfterFlush(s, f)

\* session.add_all(objs); session.flush(), objs new CalculationRow objects,
\* each with the hash rows of some registered names attached.
InsertCalculations(s, objs) ==
    /\ CanWrite(s)
    /\ NextId(db.calculation) + Len(objs) - 1 <= MaxId
    /\ \E f \in {Flushed(registry, db, pending[s],
                        [EmptyBatch EXCEPT !.calculations = objs])} :
        AfterFlush(s, f)

\* session.add(EnergyRow(geometry_id, calculation_id, value)); session.flush()
InsertEnergy(s, geometry_id, calculation_id, value) ==
    /\ CanWrite(s)
    /\ \E f \in {Flushed(registry, db, pending[s],
            [EmptyBatch EXCEPT !.energies =
                <<[geometry_id |-> geometry_id,
                   calculation_id |-> calculation_id, value |-> value]>>])} :
        AfterFlush(s, f)

\* session.flush() of a session with pending objects.
Flush(s) ==
    /\ txn = {s}
    /\ pending[s] # <<>>
    /\ \E f \in {Flushed(registry, db, pending[s], EmptyBatch)} :
        AfterFlush(s, f)

\* session.commit()
Commit(s) ==
    /\ txn = {s}
    /\ \E f \in {FlushedUntilClean(registry, db, pending[s], EmptyBatch, 100)} :
           /\ result' = [err |-> f.err, detail |-> f.detail]
           /\ pending' = [pending EXCEPT ![s] = <<>>]
           /\ db' = IF f.err = "ok" THEN f.db ELSE committed
           /\ committed' = IF f.err = "ok" THEN f.db ELSE committed
           /\ txn' = {}
    /\ UNCHANGED registry

\* session.rollback()
Rollback(s) ==
    /\ txn = {s}
    /\ db' = committed
    /\ txn' = {}
    /\ pending' = [pending EXCEPT ![s] = <<>>]
    /\ result' = Ok
    /\ UNCHANGED <<registry, committed>>

\* row.coordinates = coordinates; session.flush(), row a persisted
\* GeometryRow. The UPDATE runs the hooks listening for "before_update".
UpdatedGeometryRow(row, coordinates) ==
    LET target == [row EXCEPT !.coordinates = coordinates]
    IN  IF "before_update" \in GeometryHashEvents
        THEN PopulateGeometryHash(target) ELSE target

UpdateGeometry(s, id, coordinates) ==
    /\ CanWrite(s)
    /\ \E row \in db.geometry :
        /\ row.id = id
        /\ row.coordinates # coordinates
        /\ \E target \in {UpdatedGeometryRow(row, coordinates)},
              f \in {Flushed(registry, db, pending[s], EmptyBatch)} :
            AfterFlush(s,
                IF f.err # "ok" THEN f
                ELSE IF target.hash # row.hash
                        /\ ~GeometryHashUnique(f.db.geometry, target.hash)
                THEN [f EXCEPT !.db = db, !.err = "geometry.hash",
                               !.detail = <<target.hash>>, !.pending = <<>>]
                ELSE [f EXCEPT !.db.geometry = (@ \ {row}) \cup {target}])

\* A relationship without the cascade.
NoCascadeDelete(hashes, id) == hashes

\* The hash rows left when the rows of calculation `id` are deleted with it
\* (cascade_delete=True, ondelete="CASCADE").
CascadeDelete(hashes, id) == {h \in hashes : h.calculation_id # id}

\* session.delete(row); session.flush(), row a persisted CalculationRow.
\* The rows of row.hashes go with it, those still pending too; a related
\* EnergyRow cannot be detached (calculation_id is in its primary key).
DeleteCalculation(s, id) ==
    /\ CanWrite(s)
    /\ id \in Ids(db.calculation)
    /\ \E f \in {Flushed(registry, db,
                SelectSeq(pending[s], LAMBDA h : h.calculation_id # id),
                EmptyBatch)} :
        AfterFlush(s,
            IF f.err # "ok" THEN f
            ELSE IF \E e \in db.energy : e.calculation_id = id
            THEN [f EXCEPT !.db = db, !.err = "energy.calculation_id",
                           !.pending = <<>>]
            ELSE [f EXCEPT
                    !.db.calculation = {c \in @ : c.id # id},
                    !.db.calculation_hash = CascadeDelete(@, id)])

\* write.energy(res, db): a session of its own adds the EnergyRow with its
\* GeometryRow and CalculationRow and commits.
WriteEnergy(res) ==
    /\ txn = {}
    /\ NextId(db.geometry) <= MaxId
    /\ NextId(db.calculation) <= MaxId
    /\ \E f \in {FlushedUntilClean(registry, db, <<>>,
                    [EmptyBatch EXCEPT !.results =
                        <<[geometry |-> GeometryRowFromResults(res),
                           calculation |-> CalculationRowFromResults(res),
                           value |-> res.energy]>>], 100)} :
           /\ result' = [err |-> f.err, detail |-> f.detail]
           /\ db' = IF f.err = "ok" THEN f.db ELSE committed
           /\ committed' = IF f.err = "ok" THEN f.db ELSE committed
    /\ UNCHANGED <<registry, txn, pending>>

\* The CalculationRow objects a caller builds: a descriptor and the names
\* of the hash rows attached to it.
CalculationObjects ==
    [calc : Calculations, hashes : SUBSET Available(registry)]

Batches ==
    UNION {[1..n -> CalculationObjects] : n \in 1..MaxBatch}

(* ---------------------------- specifications -------------------------- *)

\* Sessions that hold CalculationRow objects and their hash rows, and the
\* registry growing meanwhile.
NextCalculation ==
    \/ \E name \in VariantNames, fn \in HashFunctions : Register(name, fn)
    \/ \E s \in Sessions, objs \in Batches : InsertCalculations(s, objs)
    \/ \E s \in Sessions : Flush(s)
    \/ \E s \in Sessions : Commit(s)
    \/ \E s \in Sessions : Rollback(s)
    \/ \E s \in Sessions, id \in Ids(db.calculation) : DeleteCalculation(s, id)

SpecCalculation == Init /\ [][NextCalculation]_vars

\* Sessions that insert and update GeometryRow objects.
NextGeometry ==
    \/ \E s \in Sessions, geo \in Geometries, hash \in {NoHash, CallerHash} :
        InsertGeometry(s, geo, hash)
    \/ \E s \in Sessions, id \in Ids(db.geometry), c \in 1..MaxCoord :
        UpdateGeometry(s, id, c)
    \/ \E s \in Sessions : Commit(s)
    \/ \E s \in Sessions : Rollback(s)

SpecGeometry == Init /\ [][NextGeometry]_vars

\* write.energy, and sessions that insert EnergyRow objects for stored rows.
NextEnergy ==
    \/ \E name \in VariantNames, fn \in HashFunctions : Register(name, fn)
    \/ \E res \in Results : WriteEnergy(res)
    \/ \E s \in Sessions, g \in Ids(db.geometry), c \in Ids(db.calculation),
          v \in Energies : InsertEnergy(s, g, c, v)
    \/ \E s \in Sessions, id \in Ids(db.calculation) : DeleteCalculation(s, id)
    \/ \E s \in Sessions : Commit(s)
    \/ \E s \in Sessions : Rollback(s)

SpecEnergy == Init /\ [][NextEnergy]_vars

(* ------------------------------- claims -------------------------------- *)

\* The hash rows of calculation `id` named `name`: those stored and those
\* some session still holds pending.
StoredHashRows(d, id, name) ==
    {h \in d.calculation_hash : h.calculation_id = id /\ h.name = name}

PendingHashRows(pend, id, name) ==
    Concat([s \in Sessions |->
        SelectSeq(pend[s], LAMBDA h : h.calculation_id = id /\ h.name = name)])

HashRowCount(d, pend, id, name) ==
    Cardinality(StoredHashRows(d, id, name)) + Len(PendingHashRows(pend, id, name))

HashNames(d, pend, id) ==
    {name \in VariantNames : HashRowCount(d, pend, id, name) > 0}

\* C1: a flush that inserts new CalculationRow objects and runs the
\* after_flush hook leaves each of them with exactly one hash row for every
\* name available() returns then and with no other hash row, whichever of
\* those names the caller had attached.
C1_RegistryCompleteness ==
    [][(result'.err = "ok" /\ txn' # {}) =>
        \A id \in Ids(db'.calculation) \ Ids(db.calculation) :
            \A name \in VariantNames :
                HashRowCount(db', pending', id, name) =
                    IF name \in Available(registry') THEN 1 ELSE 0]_vars

\* A calculation populated after the caller attached some but not all of
\* the registered names: a caller's row is stored, a hook's row is pending.
C1_Witness ==
    \E s \in Sessions, c \in db.calculation :
        /\ txn = {s}
        /\ \E h \in db.calculation_hash :
            h.calculation_id = c.id /\ h.value = CallerValue(h.name)
        /\ \E i \in 1..Len(pending[s]) :
            /\ pending[s][i].calculation_id = c.id
            /\ pending[s][i].value # CallerValue(pending[s][i].name)

\* C2: the flush that stores the hash rows the hook added stores exactly
\* them and leaves nothing pending (the hook adds nothing the second time),
\* and the hook adds nothing for a new calculation whose attached rows
\* already cover every registered name.
C2_PopulationIdempotent ==
    [][/\ \A s \in Sessions :
            ((Flush(s) \/ Commit(s)) /\ result'.err = "ok") =>
                /\ pending'[s] = <<>>
                /\ db'.calculation = db.calculation
                /\ db'.calculation_hash =
                    db.calculation_hash \cup
                    {pending[s][i] : i \in 1..Len(pending[s])}
       /\ (result'.err = "ok" /\ txn' # {}) =>
            \A c \in db'.calculation :
                (c.id \notin Ids(db.calculation)
                 /\ \A name \in Available(registry') :
                        StoredHashRows(db', c.id, name) # {}) =>
                    \A name \in VariantNames :
                        PendingHashRows(pending', c.id, name) = <<>>]_vars

\* The second flush has run inside an open transaction: a hash row the
\* hook computed for a calculation not yet committed is stored and nothing
\* is pending.
C2_Witness ==
    \E s \in Sessions, c \in db.calculation :
        /\ txn = {s}
        /\ pending[s] = <<>>
        /\ c \notin committed.calculation
        /\ \E h \in db.calculation_hash :
            h.calculation_id = c.id /\ h.value # CallerValue(h.name)

\* C3: a calculation_hash failure in the hook fails the flush and rolls the
\* transaction back: after any error nothing of the transaction is left in
\* the tables or in the session, the committed tables are what they were,
\* and every committed calculation has a committed hash row for every name
\* that was registered when its hook ran.
C3_FullyHashed(d) ==
    \A c \in d.calculation :
        \A name \in c.available : StoredHashRows(d, c.id, name) # {}

C3_FailureAtomic ==
    /\ [](C3_FullyHashed(committed)
          /\ (result.err # "ok" =>
                db = committed /\ txn = {} /\ \A s \in Sessions : pending[s] = <<>>))
    /\ [][result'.err = "calculation_hash" => committed' = committed]_vars

\* calculation_hash has failed for a batch while an earlier calculation
\* stays committed.
C3_Witness ==
    /\ result.err = "calculation_hash"
    /\ committed.calculation # {}
    /\ db = committed

\* C7: the hash rows of a stored calculation are those of the names that
\* were registered when its own hook ran, also once the registry has grown
\* and later flushes and commits have run.
C7_NoRetroactiveRehash ==
    \A c \in db.calculation :
        Available(registry) # c.available =>
            HashNames(db, pending, c.id) = c.available

\* A calculation committed under the registry {"minimal"} and one
\* committed after "v2" was registered.
C7_Witness ==
    \E c1 \in committed.calculation, c2 \in committed.calculation :
        /\ c1.available = {"minimal"}
        /\ c2.available = {"minimal", "v2"}
        /\ HashNames(committed, pending, c1.id) = {"minimal"}
        /\ HashNames(committed, pending, c2.id) = {"minimal", "v2"}

\* C8: a hash row is rejected for its value only when a stored row has the
\* same name and the same value.
C8_ScopedToVariant ==
    result.err = "calculation_hash.value" => result.detail[1] = result.detail[2]

\* C10: every hash row, stored or pending, references a stored
\* calculation, and deleting a calculation removes its hash rows and no
\* hash row of another calculation.
C10_Referenced(d) ==
    \A h \in d.calculation_hash : h.calculation_id \in Ids(d.calculation)

C10_HashRowsOwned ==
    /\ [](/\ C10_Referenced(db)
          /\ C10_Referenced(committed)
          /\ \A s \in Sessions : \A i \in 1..Len(pending[s]) :
                pending[s][i].calculation_id \in Ids(db.calculation))
    /\ [][\A s \in Sessions, id \in Ids(db.calculation) :
            (result'.err = "ok" /\ DeleteCalculation(s, id)) =>
                /\ id \notin Ids(db'.calculation)
                /\ \A h \in db'.calculation_hash : h.calculation_id # id
                /\ \A h \in db.calculation_hash :
                    h.calculation_id # id => h \in db'.calculation_hash]_vars

\* A calculation was deleted with its hash rows while another one keeps
\* its own.
C10_Witness ==
    /\ \E c \in committed.calculation : c \notin db.calculation
    /\ \E c \in db.calculation : \E h \in db.calculation_hash :
        h.calculation_id = c.id
    /\ result.err = "ok"

\* The query of the test: the automol Geometry (in Angstrom) of the
\* structure a result holds (in Bohr), and Calculation(program, method).
SameGeometry(res) ==
    {geo \in Geometries :
        /\ geo.symbols = res.symbols
        /\ geo.coordinates * BohrPerAngstrom = res.geometry
        /\ geo.charge = res.charge
        /\ geo.spin + 1 = res.multiplicity}

SameCalculation(res) ==
    [program |-> res.program, method |-> res.method, basis |-> res.basis,
     program_version |-> "None"]

\* C4: once write.energy has committed a result, read.energy with the same
\* geometry and calculation and hash_name "minimal" returns the energy
\* written.
C4_WriteThenRead ==
    [][\A res \in Results :
        (txn = {} /\ committed' # committed /\ WriteEnergy(res)
         /\ result'.err = "ok") =>
            /\ SameGeometry(res) # {}
            /\ \A geo \in SameGeometry(res) :
                ReadEnergy(registry', committed', geo, SameCalculation(res),
                           "minimal") = {res.energy}]_vars

\* Two results are committed and each is read back.
C4_Witness ==
    /\ Cardinality(committed.energy) = 2
    /\ \A e \in committed.energy :
        \E res \in Results : \E geo \in SameGeometry(res) :
            /\ res.energy = e.value
            /\ ReadEnergy(registry, committed, geo, SameCalculation(res),
                          "minimal") = {e.value}

\* C5: no table state holds two energy rows for one (geometry_id,
\* calculation_id); inserting an energy for a pair that has one raises,
\* stores nothing and leaves the committed tables as they were; and no step
\* changes the value stored for a pair.
C5_OnePerPair(rows) ==
    \A e1 \in rows, e2 \in rows :
        (e1.geometry_id = e2.geometry_id
         /\ e1.calculation_id = e2.calculation_id) => e1 = e2

C5_EnergyIdentity ==
    /\ [](C5_OnePerPair(db.energy) /\ C5_OnePerPair(committed.energy))
    /\ [][/\ \A e \in db.energy, s \in Sessions, v \in Energies :
                InsertEnergy(s, e.geometry_id, e.calculation_id, v) =>
                    /\ result'.err = "energy.pkey"
                    /\ committed' = committed
                    /\ db'.energy \subseteq db.energy
          /\ \A e1 \in db.energy, e2 \in db'.energy :
                (e1.geometry_id = e2.geometry_id
                 /\ e1.calculation_id = e2.calculation_id) =>
                    e1.value = e2.value]_vars

\* A second energy for a committed pair has been rejected and the
\* committed energy is still there.
C5_Witness ==
    /\ result.err = "energy.pkey"
    /\ committed.energy # {}
    /\ db = committed

\* C6: no table state holds two geometry rows with one hash, and a writer
\* inserting a geometry whose digest is on a committed row is rejected
\* while that row stays.
C6_OnePerHash(rows) ==
    \A r1 \in rows, r2 \in rows : r1.hash = r2.hash => r1 = r2

C6_GeometryDeduplicated ==
    /\ [](C6_OnePerHash(db.geometry) /\ C6_OnePerHash(committed.geometry))
    /\ [][\A s \in Sessions, geo \in Geometries, hash \in {NoHash, CallerHash} :
            ((\E r \in committed.geometry : r.hash = GeometryHash(geo))
             /\ InsertGeometry(s, geo, hash)) =>
                /\ result'.err = "geometry.hash"
                /\ committed' = committed
                /\ db' = committed]_vars

\* A writer lost: its geometry was rejected for a digest that is on
\* exactly one committed row.
C6_Witness ==
    /\ result.err = "geometry.hash"
    /\ Cardinality({r \in committed.geometry : r.hash = result.detail[1]}) = 1

\* C9: the hash of a new geometry row is geometry_hash of the fields it is
\* inserted with, whatever hash the caller gave it, and the hash of a
\* stored row never changes, also when its coordinates are updated.
GeometryOf(row) ==
    [symbols |-> row.symbols, coordinates |-> row.coordinates,
     charge |-> row.charge, spin |-> row.spin]

=============================================================================
